---- MODULE Spec2Model ----
(***************************************************************************)
(* fastapi-monitor: the capture interceptor (MonitorMiddleware.dispatch)   *)
(* and the record store (MonitorDatabase) as a state machine.              *)
(*                                                                         *)
(* Text is modelled as a sequence of tokens, bytes as a sequence of byte   *)
(* tokens, an optional value as a sequence of length 0 (None) or 1.        *)
(***************************************************************************)
EXTENDS Integers, Sequences, FiniteSets, TLC

VARIABLES
    exclude_paths,   \* MonitorMiddleware.exclude_paths, set by __init__
    tableExists,     \* whether the requests table exists in the storage file
    requests,        \* the requests table: its rows in insertion order
    seq,             \* the AUTOINCREMENT counter of the requests table
    now,             \* the reading time.time() gives
    req,             \* per in-flight request: the locals of dispatch and its position
    result,          \* what the last call of the store's API or of the dashboard returned
    reader,          \* the locals of a get_stats call in progress and its position
    dashboard        \* the dashboard app: its credentials and its dependency

vars == <<exclude_paths, tableExists, requests, seq, now, req, result, reader,
          dashboard>>

\* ------------------------------------------------------------------ bounds

\* Requests in flight at once in the concurrent specification.
NReq == 2
\* The clock advances at most MaxTime seconds past T0.
MaxTime == 1
\* Rows the store's API is called to append in the store specification.
MaxRows == 3

\* Time (time.time() and the timestamp column, REAL seconds) is counted in
\* half milliseconds, fine enough to tell the readings SQLite's datetime()
\* rounds up to the next millisecond from those that CAST(... AS INTEGER)
\* truncates.
TicksPerSecond == 2 * 1000

\* The clock's first reading: 10:30:00 of day 8 of the epoch.
T0 == (8 * 86400 + 10 * 3600 + 30 * 60) * TicksPerSecond

\* ------------------------------------------------------------ optional values

None == <<>>
Some(x) == <<x>>
IsNone(o) == o = <<>>
IsSome(o) == Len(o) = 1
Get(o) == o[1]

\* ------------------------------------------------------------------ text

\* str.startswith(prefix)
StartsWith(s, prefix) ==
    /\ Len(prefix) <= Len(s)
    /\ SubSeq(s, 1, Len(prefix)) = prefix

RECURSIVE Utf8Valid(_)
\* Whether bytes.decode("utf-8") succeeds: "a" is an ASCII byte, C3 A9 the
\* two-byte encoding of one character, FF a byte no UTF-8 text contains.
Utf8Valid(bs) ==
    IF bs = <<>> THEN TRUE
    ELSE IF Head(bs) = "a" THEN Utf8Valid(Tail(bs))
    ELSE IF Head(bs) = "C3" /\ Len(bs) >= 2 /\ bs[2] = "A9"
         THEN Utf8Valid(Tail(Tail(bs)))
    ELSE FALSE

RECURSIVE Utf8Chars(_)
\* The characters of valid UTF-8 bytes.
Utf8Chars(bs) ==
    IF bs = <<>> THEN <<>>
    ELSE IF Head(bs) = "a" THEN <<"a">> \o Utf8Chars(Tail(bs))
    ELSE <<"e'">> \o Utf8Chars(Tail(Tail(bs)))

RECURSIVE Utf8Encode(_)
\* str.encode("utf-8")
Utf8Encode(s) ==
    IF s = <<>> THEN <<>>
    ELSE IF Head(s) = "a" THEN <<"a">> \o Utf8Encode(Tail(s))
    ELSE <<"C3", "A9">> \o Utf8Encode(Tail(s))

\* try: body.decode("utf-8") except Exception: None
DecodeOrNone(bs) == IF Utf8Valid(bs) THEN Some(Utf8Chars(bs)) ELSE None

DigitChars == <<"0", "1", "2", "3", "4", "5", "6", "7", "8", "9">>
Digits == {DigitChars[i] : i \in 1..10}
DigitVal(c) == (CHOOSE i \in 1..10 : DigitChars[i] = c) - 1

RECURSIVE IntToStr(_)
\* str(n) of an int n >= 0
IntToStr(n) ==
    IF n < 10 THEN <<DigitChars[n + 1]>>
    ELSE IntToStr(n \div 10) \o <<DigitChars[(n % 10) + 1]>>

RECURSIVE DigitsValue(_, _)
DigitsValue(s, acc) ==
    IF s = <<>> THEN acc ELSE DigitsValue(Tail(s), 10 * acc + DigitVal(Head(s)))

AllDigits(s) == s # <<>> /\ \A i \in 1..Len(s) : s[i] \in Digits

\* int(s) of a str: Some(n), or None for the ValueError it raises.
IntParse(s) ==
    IF AllDigits(s) THEN Some(DigitsValue(s, 0))
    ELSE IF s # <<>> /\ Head(s) = "-" /\ AllDigits(Tail(s))
         THEN Some(0 - DigitsValue(Tail(s), 0))
    ELSE None

\* --------------------------------------------------------------- headers

\* Headers are the raw list of (name, value) fields; a name may repeat.
RECURSIVE HeaderGet(_, _)
\* Headers.get(name): the first field of that name, or None.
HeaderGet(hs, name) ==
    IF hs = <<>> THEN None
    ELSE IF Head(hs)[1] = name THEN Some(Head(hs)[2])
    ELSE HeaderGet(Tail(hs), name)

HeaderNames(hs) == {hs[i][1] : i \in 1..Len(hs)}

RECURSIVE DictOfFrom(_, _, _)
DictOfFrom(hs, all, seen) ==
    IF hs = <<>> THEN <<>>
    ELSE IF Head(hs)[1] \in seen THEN DictOfFrom(Tail(hs), all, seen)
    ELSE <<<<Head(hs)[1], Get(HeaderGet(all, Head(hs)[1]))>>>>
         \o DictOfFrom(Tail(hs), all, seen \cup {Head(hs)[1]})

\* dict(headers): one entry per name, in the order of the names' first
\* fields, each with the value Headers.__getitem__ gives (the first).
DictOf(hs) == DictOfFrom(hs, hs, {})

\* ------------------------------------------------------------------ JSON

\* A mapping (dict of str to str) is a sequence of <<key, value>> entries with
\* distinct keys, in insertion order; JSON text is a sequence of tokens.
Punct(c) == <<"p", <<c>>>>
Str(s) == <<"s", s>>

RECURSIVE JsonMembers(_)
JsonMembers(d) ==
    IF d = <<>> THEN <<>>
    ELSE <<Str(<<Head(d)[1]>>), Punct(":"), Str(Head(d)[2])>>
         \o (IF Tail(d) = <<>> THEN <<>> ELSE <<Punct(",")>>)
         \o JsonMembers(Tail(d))

\* json.dumps(d)
JsonDumps(d) == <<Punct("{")>> \o JsonMembers(d) \o <<Punct("}")>>

RECURSIVE JsonParseMembers(_)
JsonParseMembers(ts) ==
    IF Len(ts) < 3 THEN <<>>
    ELSE <<<<ts[1][2][1], ts[3][2]>>>>
         \o JsonParseMembers(IF Len(ts) >= 4 THEN SubSeq(ts, 5, Len(ts)) ELSE <<>>)

\* json.loads(text) of the text of an object
JsonLoads(text) == JsonParseMembers(SubSeq(text, 2, Len(text) - 1))

\* json.dumps(x) if x else None: an empty mapping is falsy, and so is None.
DumpsOrNone(o) == IF IsSome(o) /\ Get(o) # <<>> THEN Some(JsonDumps(Get(o))) ELSE None

\* --------------------------------------------------------------- the store

\* The row INSERT INTO requests makes of store_request's arguments; id is
\* the AUTOINCREMENT key.
MakeRow(id, a) ==
    [id |-> id,
     timestamp |-> a.timestamp,
     method |-> a.method,
     path |-> a.path,
     query_params |-> a.query_params,
     status_code |-> a.status_code,
     response_time |-> a.response_time,
     request_size |-> a.request_size,
     response_size |-> a.response_size,
     client_ip |-> a.client_ip,
     user_agent |-> a.user_agent,
     headers |-> DumpsOrNone(a.headers),
     request_body |-> a.request_body,
     response_body |-> a.response_body,
     response_headers |-> DumpsOrNone(a.response_headers),
     error_info |-> DumpsOrNone(a.error_info)]

\* A table re-created by every init_db (DROP TABLE, then CREATE TABLE).
CreateTableDropping(exists, rows) == <<>>

\* CREATE TABLE IF NOT EXISTS requests: the rows the table holds afterwards.
CreateTableIfNotExists(exists, rows) == IF exists THEN rows ELSE <<>>

\* An INSERT that replaces the newest row instead of adding one.
InsertRowReplacing(rows, seqv, a) ==
    IF rows = <<>> THEN <<MakeRow(seqv + 1, a)>>
    ELSE SubSeq(rows, 1, Len(rows) - 1) \o <<MakeRow(seqv + 1, a)>>

\* INSERT INTO requests (...) VALUES (...), committed.
InsertRow(rows, seqv, a) == Append(rows, MakeRow(seqv + 1, a))

\* --------------------------------------------------------- the store's API

\* An init_db that drops and re-creates the table and its counter.
InitDbRecreating ==
    /\ tableExists' = TRUE
    /\ requests' = <<>>
    /\ seq' = 0
    /\ result' = [op |-> "init_db", value |-> <<>>]
    /\ UNCHANGED <<dashboard, reader, exclude_paths, now, req>>

\* init_db(): lines 16-52.
InitDb ==
    /\ tableExists' = TRUE
    /\ requests' = CreateTableIfNotExists(tableExists, requests)
    /\ result' = [op |-> "init_db", value |-> <<>>]
    /\ UNCHANGED <<dashboard, reader, exclude_paths, seq, now, req>>

\* store_request(...): lines 54-102, called by a caller that awaits it.
StoreRequest(a) ==
    /\ Len(requests) < MaxRows
    /\ tableExists' = TRUE
    /\ requests' = InsertRow(CreateTableIfNotExists(tableExists, requests), seq, a)
    /\ seq' = seq + 1
    /\ result' = [op |-> "store_request", value |-> <<>>]
    /\ UNCHANGED <<dashboard, reader, exclude_paths, now, req>>

\* datetime.fromtimestamp(ts).strftime("%I:%M:%S %p"), the local zone UTC:
\* the fraction of the second is not printed.
FormattedTime(ts) ==
    LET t == ts \div TicksPerSecond
        h == (t % 86400) \div 3600
        h12 == IF h % 12 = 0 THEN 12 ELSE h % 12
    IN <<h12, (t % 3600) \div 60, t % 60, IF h < 12 THEN "AM" ELSE "PM">>

\* A row whose timestamp is cut to whole seconds when it is formatted.
RowDictCut(row) ==
    [row EXCEPT !.timestamp = (@ \div TicksPerSecond) * TicksPerSecond]
        @@ ("formatted_time" :> FormattedTime(row.timestamp))

\* dict(row) with formatted_time added.
RowDict(row) == row @@ ("formatted_time" :> FormattedTime(row.timestamp))

\* ORDER BY timestamp DESC, read backwards off idx_timestamp: rows of one
\* timestamp come newest (largest id) first.
Newer(x, y) ==
    \/ x.timestamp > y.timestamp
    \/ x.timestamp = y.timestamp /\ x.id > y.id

\* A page that starts one row early: OFFSET counted from the row before.
LimitOffsetFromOne(rows, limit, offset) ==
    LET skip == IF offset < 1 THEN 0 ELSE offset - 1
        rest == IF skip >= Len(rows) THEN <<>> ELSE SubSeq(rows, skip + 1, Len(rows))
    IN IF limit < 0 \/ limit >= Len(rest) THEN rest ELSE SubSeq(rest, 1, limit)

\* LIMIT ? OFFSET ?: a negative LIMIT is no limit, a negative OFFSET is 0.
LimitOffset(rows, limit, offset) ==
    LET skip == IF offset < 0 THEN 0 ELSE offset
        rest == IF skip >= Len(rows) THEN <<>> ELSE SubSeq(rows, skip + 1, Len(rows))
    IN IF limit < 0 \/ limit >= Len(rest) THEN rest ELSE SubSeq(rest, 1, limit)

RecentRequests(rows, limit, offset) ==
    LET page == LimitOffset(SortSeq(rows, Newer), limit, offset)
    IN [i \in 1..Len(page) |-> RowDict(page[i])]

\* get_recent_requests(limit, offset): lines 104-128.
GetRecentRequests(limit, offset) ==
    /\ tableExists' = TRUE
    /\ requests' = CreateTableIfNotExists(tableExists, requests)
    /\ result' = [op |-> "get_recent_requests", limit |-> limit, offset |-> offset,
                  value |-> RecentRequests(requests', limit, offset)]
    /\ UNCHANGED <<dashboard, reader, exclude_paths, seq, now, req>>

\* if row_dict[f]: row_dict[f] = json.loads(row_dict[f])
LoadsIfSet(o) == IF IsSome(o) /\ Get(o) # <<>> THEN Some(JsonLoads(Get(o))) ELSE o

\* A lookup that falls back to the newest row when no row has the id.
RequestByIdOrLatest(rows, id) ==
    LET hit == SelectSeq(rows, LAMBDA x : x.id = id)
        row == IF hit = <<>> THEN rows[Len(rows)] ELSE hit[1]
    IN IF rows = <<>> THEN None
       ELSE Some([RowDict(row) EXCEPT
                    !.headers = LoadsIfSet(@),
                    !.response_headers = LoadsIfSet(@),
                    !.error_info = LoadsIfSet(@)])

\* Lines 136-153: the row of that id with its JSON fields parsed, or None.
RequestById(rows, id) ==
    LET hit == SelectSeq(rows, LAMBDA x : x.id = id)
    IN IF hit = <<>> THEN None
       ELSE Some([RowDict(hit[1]) EXCEPT
                    !.headers = LoadsIfSet(@),
                    !.response_headers = LoadsIfSet(@),
                    !.error_info = LoadsIfSet(@)])

\* get_request_by_id(request_id): lines 130-153.
GetRequestById(id) ==
    /\ tableExists' = TRUE
    /\ requests' = CreateTableIfNotExists(tableExists, requests)
    /\ result' = [op |-> "get_request_by_id", id |-> id,
                  value |-> RequestById(requests', id)]
    /\ UNCHANGED <<dashboard, reader, exclude_paths, seq, now, req>>

RECURSIVE SumResponseTime(_)
\* SUM(response_time) over rows
SumResponseTime(rows) ==
    IF rows = <<>> THEN 0
    ELSE Head(rows).response_time + SumResponseTime(Tail(rows))

\* round(x, 2) of x = s / n, in hundredths: the nearest, ties to even.
Round2(s, n) ==
    LET q == (100 * s) \div n
        m == (100 * s) % n
    IN IF 2 * m < n THEN q
       ELSE IF 2 * m > n THEN q + 1
       ELSE IF q % 2 = 0 THEN q ELSE q + 1

\* An average that divides by the count plus one.
AvgResponseTimeBiased(rows) ==
    Round2(SumResponseTime(rows), Len(rows) + 1)

\* round((SELECT AVG(response_time) FROM requests) or 0, 2), in hundredths of
\* a millisecond: AVG of no rows is NULL.
AvgResponseTime(rows) ==
    IF rows = <<>> THEN 0 ELSE Round2(SumResponseTime(rows), Len(rows))

\* A mapping with a key for each of the usual codes, stored or not.
StatusCodesOfUsual(rows) ==
    [k \in {IntToStr(c) : c \in {200, 404, 500}} |->
          Cardinality({i \in 1..Len(rows) : IntToStr(rows[i].status_code) = k})]

\* {str(row[0]): row[1]} of SELECT status_code, COUNT(*) ... GROUP BY status_code
StatusCodes(rows) ==
    LET codes == {rows[i].status_code : i \in 1..Len(rows)}
    IN [k \in {IntToStr(c) : c \in codes} |->
          Cardinality({i \in 1..Len(rows) : IntToStr(rows[i].status_code) = k})]

\* SELECT COUNT(*) FROM requests WHERE error_info IS NOT NULL
ErrorCount(rows) == Cardinality({i \in 1..Len(rows) : IsSome(rows[i].error_info)})

Stats(rows) ==
    [total_requests |-> Len(rows),
     avg_response_time |-> AvgResponseTime(rows),
     status_codes |-> StatusCodes(rows),
     error_count |-> ErrorCount(rows)]

\* get_stats(): lines 285-321.
GetStats ==
    /\ tableExists' = TRUE
    /\ requests' = CreateTableIfNotExists(tableExists, requests)
    /\ result' = [op |-> "get_stats", value |-> Stats(requests')]
    /\ UNCHANGED <<dashboard, reader, exclude_paths, seq, now, req>>

\* get_stats() step by step, as it runs beside other tasks: it awaits init_db
\* and then four statements, one after the other, on a connection in
\* autocommit mode, so that each statement reads the table as it is then.
ReaderIdle ==
    [pc |-> "idle", total_requests |-> 0, avg_response_time |-> 0,
     status_codes |-> <<>>]

\* Line 287: await self.init_db()
StatsInit ==
    /\ reader.pc = "idle"
    /\ tableExists' = TRUE
    /\ requests' = CreateTableIfNotExists(tableExists, requests)
    /\ reader' = [reader EXCEPT !.pc = "total"]
    /\ UNCHANGED <<dashboard, exclude_paths, seq, now, req, result>>

\* Lines 291-292: SELECT COUNT(*) FROM requests
StatsTotal ==
    /\ reader.pc = "total"
    /\ reader' = [reader EXCEPT !.pc = "avg", !.total_requests = Len(requests)]
    /\ UNCHANGED <<dashboard, exclude_paths, tableExists, requests, seq, now, req,
                   result>>

\* Lines 295-298: SELECT AVG(response_time) FROM requests
StatsAvg ==
    /\ reader.pc = "avg"
    /\ reader' = [reader EXCEPT !.pc = "status_codes",
                                !.avg_response_time = AvgResponseTime(requests)]
    /\ UNCHANGED <<dashboard, exclude_paths, tableExists, requests, seq, now, req,
                   result>>

\* Lines 301-308: SELECT status_code, COUNT(*) ... GROUP BY status_code
StatsStatusCodes ==
    /\ reader.pc = "status_codes"
    /\ reader' = [reader EXCEPT !.pc = "errors",
                                !.status_codes = StatusCodes(requests)]
    /\ UNCHANGED <<dashboard, exclude_paths, tableExists, requests, seq, now, req,
                   result>>

\* Lines 311-321: SELECT COUNT(*) ... WHERE error_info IS NOT NULL, and the
\* dict returned.
StatsErrors ==
    /\ reader.pc = "errors"
    /\ result' = [op |-> "get_stats",
                  value |-> [total_requests |-> reader.total_requests,
                             avg_response_time |-> reader.avg_response_time,
                             status_codes |-> reader.status_codes,
                             error_count |-> ErrorCount(requests)]]
    /\ reader' = ReaderIdle
    /\ UNCHANGED <<dashboard, exclude_paths, tableExists, requests, seq, now, req>>

\* The resolutions of get_requests_over_time: bucket width and lookback in
\* seconds, and the strftime format of the label.
Resolutions ==
    ("30s" :> [seconds |-> 30, duration |-> 3600, format |-> "%H:%M:%S"])
    @@ ("1m" :> [seconds |-> 60, duration |-> 3600, format |-> "%H:%M"])
    @@ ("5m" :> [seconds |-> 300, duration |-> 7200, format |-> "%H:%M"])
    @@ ("15m" :> [seconds |-> 900, duration |-> 21600, format |-> "%H:%M"])
    @@ ("30m" :> [seconds |-> 1800, duration |-> 43200, format |-> "%H:%M"])
    @@ ("1h" :> [seconds |-> 3600, duration |-> 86400, format |-> "%H:00"])
    @@ ("1d" :> [seconds |-> 86400, duration |-> 604800, format |-> "%Y-%m-%d"])

\* resolutions.get(resolution, resolutions["30s"])
ConfigOf(resolution) ==
    IF resolution \in DOMAIN Resolutions THEN Resolutions[resolution]
    ELSE Resolutions["30s"]

\* datetime(ts, 'unixepoch') of a REAL ts: SQLite rounds it to the nearest
\* millisecond and the date and time functions print its whole seconds.
DatetimeSeconds(ts) ==
    LET perMilli == TicksPerSecond \div 1000
    IN ((ts + perMilli \div 2) \div perMilli) \div 1000

\* CAST(ts AS INTEGER) of a REAL ts: the fraction is cut off.
CastInteger(ts) == ts \div TicksPerSecond

\* strftime('%s', 'now'): the clock's reading in whole seconds.
SqlNow(t) == t \div TicksPerSecond

\* strftime(format, datetime(t, 'unixepoch')) of whole seconds t: the label's
\* zero-padded numbers (a date is its day number); labels order as their
\* texts do.
Strftime(format, t) ==
    LET h == (t % 86400) \div 3600
        m == (t % 3600) \div 60
    IN IF format = "%H:%M:%S" THEN <<h, m, t % 60>>
       ELSE IF format = "%H:%M" THEN <<h, m>>
       ELSE IF format = "%H:00" THEN <<h, 0>>
       ELSE <<t \div 86400>>

\* The 30s query's time_slot: strftime('%H:%M', ...) || ':' || '00' or '30'.
TimeSlot30(ts) ==
    LET t == DatetimeSeconds(ts)
    IN <<(t % 86400) \div 3600, (t % 3600) \div 60, IF t % 60 < 30 THEN 0 ELSE 30>>

\* The other query's time_slot: the label of (CAST(timestamp AS INTEGER) /
\* seconds) * seconds.
TimeSlotOf(config, ts) ==
    Strftime(config.format, (CastInteger(ts) \div config.seconds) * config.seconds)

TimeSlot(resolution, ts) ==
    IF resolution = "30s" THEN TimeSlot30(ts) ELSE TimeSlotOf(ConfigOf(resolution), ts)

\* Text order of two labels of one format.
RECURSIVE LabelLess(_, _)
LabelLess(x, y) ==
    IF x = <<>> \/ y = <<>> THEN x = <<>> /\ y # <<>>
    ELSE IF Head(x) # Head(y) THEN Head(x) < Head(y)
    ELSE LabelLess(Tail(x), Tail(y))

RECURSIVE SortedLabels(_)
SortedLabels(S) ==
    IF S = {} THEN <<>>
    ELSE LET least == CHOOSE x \in S : \A y \in S \ {x} : LabelLess(x, y)
         IN <<least>> \o SortedLabels(S \ {least})

\* WHERE timestamp > (strftime('%s', 'now') - duration)
InWindow(rows, t, duration) ==
    SelectSeq(rows, LAMBDA x : x.timestamp > (SqlNow(t) - duration) * TicksPerSecond)

\* Lines 173-214: SELECT time_slot, COUNT(*) ... GROUP BY time_slot ORDER BY
\* time_slot, as a list of {time, count}.
RequestsOverTime(rows, t, resolution) ==
    LET win == InWindow(rows, t, ConfigOf(resolution).duration)
        slot(i) == TimeSlot(resolution, win[i].timestamp)
        labels == SortedLabels({slot(i) : i \in 1..Len(win)})
    IN [k \in 1..Len(labels) |->
          [time |-> labels[k],
           count |-> Cardinality({i \in 1..Len(win) : slot(i) = labels[k]})]]

\* get_requests_over_time(resolution): lines 155-214.
GetRequestsOverTime(resolution) ==
    /\ tableExists' = TRUE
    /\ requests' = CreateTableIfNotExists(tableExists, requests)
    /\ result' = [op |-> "get_requests_over_time", resolution |-> resolution,
                  value |-> RequestsOverTime(requests', now, resolution)]
    /\ UNCHANGED <<dashboard, reader, exclude_paths, seq, now, req>>

\* Lines 227-233: the CASE of the response-time histogram.
Band(response_time) ==
    IF response_time < 100 THEN "0-100ms"
    ELSE IF response_time < 500 THEN "100-500ms"
    ELSE IF response_time < 1000 THEN "500ms-1s"
    ELSE IF response_time < 5000 THEN "1-5s"
    ELSE "5s+"

\* Lines 224-242: one {range, count} per band that holds a row (GROUP BY
\* range, in no stated order).
ResponseTimeDistribution(rows) ==
    {[range |-> b,
      count |-> Cardinality({i \in 1..Len(rows) : Band(rows[i].response_time) = b})] :
        b \in {Band(rows[i].response_time) : i \in 1..Len(rows)}}

\* One {path, count, avg_time} per path (avg_time in hundredths).
EndpointGroups(rows) ==
    {[path |-> p,
      count |-> Len(SelectSeq(rows, LAMBDA x : x.path = p)),
      avg_time |-> AvgResponseTime(SelectSeq(rows, LAMBDA x : x.path = p))] :
        p \in {rows[i].path : i \in 1..Len(rows)}}

\* Lines 245-257: ORDER BY count DESC LIMIT 10; paths of one count come in
\* any order, so every list the query may give.
TopEndpoints(rows) ==
    LET G == EndpointGroups(rows)
        n == Cardinality(G)
        orders == {f \in [1..n -> G] :
                     /\ \A i, j \in 1..n : i # j => f[i] # f[j]
                     /\ \A i \in 1..n : \A j \in 1..n : i < j => f[i].count >= f[j].count}
    IN {IF n > 10 THEN SubSeq(f, 1, 10) ELSE f : f \in orders}

\* Lines 260-275: per date and status code of the last 7 days, ORDER BY date,
\* status_code.
StatusTrends(rows, t) ==
    LET win == InWindow(rows, t, 604800)
        key(i) == <<DatetimeSeconds(win[i].timestamp) \div 86400, win[i].status_code>>
        keys == SortedLabels({key(i) : i \in 1..Len(win)})
    IN [k \in 1..Len(keys) |->
          [date |-> keys[k][1], status_code |-> keys[k][2],
           count |-> Cardinality({i \in 1..Len(win) : key(i) = keys[k]})]]

\* Lines 278-283: the dict get_analytics_data returns, `top` the order the
\* engine gave the endpoints of equal count.
AnalyticsData(rows, t, resolution, top) ==
    [requests_over_time |-> RequestsOverTime(rows, t, resolution),
     resolution |-> resolution,
     response_time_distribution |-> ResponseTimeDistribution(rows),
     top_endpoints |-> top,
     status_trends |-> StatusTrends(rows, t)]

\* get_analytics_data(resolution): lines 216-283.
GetAnalyticsData(resolution) ==
    /\ tableExists' = TRUE
    /\ requests' = CreateTableIfNotExists(tableExists, requests)
    /\ \E top \in TopEndpoints(requests') :
         result' = [op |-> "get_analytics_data",
                    value |-> AnalyticsData(requests', now, resolution, top)]
    /\ UNCHANGED <<dashboard, reader, exclude_paths, seq, now, req>>

\* -------------------------------------------------------------- the dashboard

\* The truth value of an Optional[str]: None and "" are false.
Truthy(o) == IsSome(o) /\ Get(o) # <<>>

\* create_dashboard_app(db_path, username, password): lines 50-53 choose the
\* dependency every endpoint is declared with.
CreateDashboardApp(username, password) ==
    [username |-> username, password |-> password,
     auth_dependency |-> IF Truthy(username) /\ Truthy(password)
                         THEN "authenticate" ELSE "no_auth"]

\* Whether a str holds ASCII characters only ("e'" is the one character of
\* the model outside ASCII).
IsAscii(s) == \A i \in 1..Len(s) : s[i] # "e'"

\* secrets.compare_digest(a, b) on two str: TypeError unless both hold ASCII
\* characters only.
CompareDigest(a, b) ==
    IF ~(IsAscii(a) /\ IsAscii(b)) THEN "TypeError"
    ELSE IF a = b THEN "True" ELSE "False"

\* The status the dependency of an endpoint leaves the request with: no_auth
\* lets it pass; HTTPBasic answers 401 without an Authorization header and
\* gives authenticate the username and password of the header otherwise;
\* authenticate raises HTTPException(401) unless both compare equal, and a
\* TypeError of compare_digest leaves the application as a 500.
Authenticate(app, credentials) ==
    IF app.auth_dependency = "no_auth" THEN 200
    ELSE IF IsNone(credentials) THEN 401
    ELSE LET correct_username ==
                 CompareDigest(Get(credentials)[1], Get(app.username))
             correct_password ==
                 CompareDigest(Get(credentials)[2], Get(app.password))
         IN IF "TypeError" \in {correct_username, correct_password} THEN 500
            ELSE IF correct_username = "True" /\ correct_password = "True"
                 THEN 200 ELSE 401

\* The routes of the dashboard app that depend on auth_dependency.
Endpoints ==
    {"/", "/api/stats", "/api/requests", "/api/requests/{request_id}",
     "/stats-partial", "/requests-partial", "/analytics", "/api/analytics"}

\* What an endpoint reads of the store, with the defaults of its query
\* parameters (limit 20, offset 0, page 1, resolution 30s) and request_id 1;
\* /analytics renders its page and reads nothing.
EndpointData(endpoint, rows, t, top) ==
    CASE endpoint \in {"/", "/api/stats", "/stats-partial"} ->
           [stats |-> Stats(rows)]
      [] endpoint = "/api/requests" ->
           [recent_requests |-> RecentRequests(rows, 20, 0)]
      [] endpoint = "/api/requests/{request_id}" ->
           [request |-> RequestById(rows, 1)]
      [] endpoint = "/requests-partial" ->
           [recent_requests |-> RecentRequests(rows, 20, 0),
            total_pages |-> (Len(rows) + 20 - 1) \div 20]
      [] endpoint = "/api/analytics" ->
           [analytics |-> AnalyticsData(rows, t, "30s", top)]
      [] OTHER -> [page |-> "analytics.html"]

\* GET of an endpoint with the credentials of its Authorization header, if
\* any: the dependency first, then the endpoint's calls of the store, each of
\* which awaits init_db.
DashboardGet(endpoint, credentials) ==
    LET status == Authenticate(dashboard, credentials)
        reads == status = 200 /\ endpoint # "/analytics"
    IN /\ tableExists' = (tableExists \/ reads)
       /\ requests' = IF reads THEN CreateTableIfNotExists(tableExists, requests)
                      ELSE requests
       /\ \E top \in TopEndpoints(requests') :
            result' = [op |-> "dashboard", endpoint |-> endpoint,
                       credentials |-> credentials, status |-> status,
                       value |-> IF status = 200
                                 THEN Some(EndpointData(endpoint, requests', now, top))
                                 ELSE None]
       /\ UNCHANGED <<dashboard, reader, exclude_paths, seq, now, req>>

\* ------------------------------------------------------------ the interceptor

\* exclude_paths or ["/monitor"] (MonitorMiddleware.__init__)
DefaultExclude == <<<<"/monitor">>>>
Construct(arg) == IF IsSome(arg) /\ Get(arg) # <<>> THEN Get(arg) ELSE DefaultExclude

\* An exclusion that asks for the whole path, not a prefix of it.
ExcludedExact(path, prefixes) == \E i \in 1..Len(prefixes) : path = prefixes[i]

\* any(request.url.path.startswith(path) for path in self.exclude_paths)
Excluded(path, prefixes) == \E i \in 1..Len(prefixes) : StartsWith(path, prefixes[i])

BodyMethods == {"POST", "PUT", "PATCH"}

\* A fault: its type's name, its message, where it was raised, and whether its
\* type derives from BaseException only (asyncio.CancelledError) and not from
\* Exception.
Exc(kind, msg, origin, base) ==
    [kind |-> kind, msg |-> msg, origin |-> origin, base |-> base]

\* What an awaited call gives its caller: a response or a fault.
Returned(resp) == [tag |-> "return", response |-> Some(resp), exc |-> None]
Raised(e) == [tag |-> "raise", response |-> None, exc |-> Some(e)]
NoOutcome == [tag |-> "none", response |-> None, exc |-> None]

\* A response whose body is still a stream: the chunks body_iterator yields
\* and the fault it raises after them, if any.
Streaming(status, headers, chunks, stream_error) ==
    [status_code |-> status, headers |-> headers, media_type |-> None,
     body |-> None, chunks |-> chunks, stream_error |-> stream_error,
     consumed |-> FALSE]

RECURSIVE Concat(_)
\* body = b""; for chunk in chunks: body += chunk
Concat(chunks) ==
    IF chunks = <<>> THEN <<>> ELSE Head(chunks) \o Concat(Tail(chunks))

\* Response.init_headers (starlette): the fields of the dict given, then
\* content-length and content-type when the dict holds none (content-type only
\* when a media type is given).
InitHeaders(status, hdict, media_type, body) ==
    hdict
    \o (IF "content-length" \notin HeaderNames(hdict)
           /\ ~(status < 200 \/ status \in {204, 304})
        THEN <<<<"content-length", IntToStr(Len(body))>>>> ELSE <<>>)
    \o (IF IsSome(media_type) /\ "content-type" \notin HeaderNames(hdict)
        THEN <<<<"content-type", Get(media_type)>>>> ELSE <<>>)

\* Response(content=body, status_code=response.status_code,
\*          headers=dict(response.headers), media_type=response.media_type)
Recreate(resp, body) ==
    [status_code |-> resp.status_code,
     headers |-> InitHeaders(resp.status_code, DictOf(resp.headers),
                             resp.media_type, body),
     media_type |-> resp.media_type, body |-> Some(body), chunks |-> <<>>,
     stream_error |-> None, consumed |-> FALSE]

\* The bytes a response delivers to whoever sends it: its body, or what its
\* stream still yields (nothing once the stream has been consumed).
Delivered(resp) ==
    IF IsSome(resp.body) THEN Get(resp.body)
    ELSE IF resp.consumed THEN <<>> ELSE Concat(resp.chunks)

\* A capture of JSON responses only.
CapturedJsonOnly(resp) ==
    LET ct == HeaderGet(resp.headers, "content-type")
        v == IF IsSome(ct) THEN Get(ct) ELSE <<>>
    IN StartsWith(v, <<"application/json">>)

\* response.headers.get("content-type", "").startswith(("application/json", "text/"))
Captured(resp) ==
    LET ct == HeaderGet(resp.headers, "content-type")
        v == IF IsSome(ct) THEN Get(ct) ELSE <<>>
    IN StartsWith(v, <<"application/json">>) \/ StartsWith(v, <<"text/">>)

\* The locals of one dispatch call, and its place among the calls:
\* `completed` numbers the calls in the order in which they read end_time
\* (line 93), 0 before that.
Idle ==
    [pc |-> "idle", request |-> None, completed |-> 0,
     start_time |-> 0, end_time |-> 0, request_data |-> None,
     handler |-> NoOutcome, response |-> None, error_info |-> None,
     exception_occurred |-> None, pending |-> None, response_body |-> None,
     response_data |-> None, row_ids |-> <<>>, outcome |-> NoOutcome]

\* error_info = {"error_type": type(e).__name__, "error_message": str(e),
\*               "traceback": traceback.format_exc()}
ErrorInfo(e) ==
    <<<<"error_type", <<e.kind>>>>,
      <<"error_message", e.msg>>,
      <<"traceback", <<"Traceback", e.origin, e.kind>> \o e.msg>>>>

\* request_size = int(content_length) if content_length else 0: Some(n), or
\* None for the ValueError of int().
RequestSize(headers) ==
    LET cl == HeaderGet(headers, "content-length")
    IN IF IsSome(cl) /\ Get(cl) # <<>> THEN IntParse(Get(cl)) ELSE Some(0)

\* Lines 40-53: request_data, once the body has been captured. The ValueError
\* of int() is raised before the try statement and leaves dispatch.
BuildRequestData(l, request_body) ==
    LET rq == Get(l.request)
        size == RequestSize(rq.headers)
    IN IF IsNone(size)
       THEN [l EXCEPT !.pc = "done",
                      !.outcome = Raised(Exc("ValueError", <<"invalid literal">>,
                                             "interceptor", FALSE))]
       ELSE [l EXCEPT !.pc = "call_next",
                      !.request_data = Some(
                          [method |-> rq.method,
                           path |-> rq.path,
                           query_params |-> rq.query,
                           headers |-> Some(DictOf(rq.headers)),
                           client_ip |-> rq.client,
                           user_agent |-> HeaderGet(rq.headers, "user-agent"),
                           timestamp |-> l.start_time,
                           request_body |-> request_body,
                           request_size |-> Get(size)])]

\* The place of the next call to read the clock at line 93.
NextCompleted == Cardinality({q \in DOMAIN req : req[q].completed # 0}) + 1

\* Lines 23-37 up to the first suspension point.
Dispatch(r, rq) ==
    /\ req[r].pc = "idle"
    /\ req' = [req EXCEPT ![r] =
          IF Excluded(rq.path, exclude_paths)
          THEN [@ EXCEPT !.pc = "passthrough", !.request = Some(rq)]
          ELSE IF rq.method \in BodyMethods
          THEN [@ EXCEPT !.pc = "read_body", !.request = Some(rq),
                         !.start_time = now]
          ELSE BuildRequestData([@ EXCEPT !.request = Some(rq),
                                          !.start_time = now], None)]
    /\ UNCHANGED <<dashboard, reader, exclude_paths, tableExists, requests, seq, now, result>>

\* Line 26: return await call_next(request), for an excluded path.
PassThrough(r, out) ==
    /\ req[r].pc = "passthrough"
    /\ req' = [req EXCEPT ![r] = [@ EXCEPT !.pc = "done", !.handler = out,
                                           !.outcome = out]]
    /\ UNCHANGED <<dashboard, reader, exclude_paths, tableExists, requests, seq, now, result>>

\* Lines 33-37: body = await request.body(); decode it unless it is empty;
\* any Exception gives None.
CaptureRequestBody(rq) ==
    IF rq.body_error \/ rq.body = <<>> THEN None ELSE DecodeOrNone(rq.body)

ReadBody(r) ==
    /\ req[r].pc = "read_body"
    /\ req' = [req EXCEPT ![r] =
          BuildRequestData(@, CaptureRequestBody(Get(@.request)))]
    /\ UNCHANGED <<dashboard, reader, exclude_paths, tableExists, requests, seq, now, result>>

\* A status taken from the response whenever there is one, 200 otherwise.
StatusOfLenient(response) ==
    IF IsSome(response) THEN Get(response).status_code ELSE 200

\* response.status_code if response else 500
StatusOf(response) ==
    IF IsSome(response) THEN Get(response).status_code ELSE 500

\* Lines 92-105: end_time, response_time and response_data; the next step is
\* the awaited store_request.
Finally(l) ==
    [l EXCEPT !.pc = "store_init",
              !.completed = NextCompleted,
              !.end_time = now,
              !.response_data = Some(
                  [status_code |-> StatusOf(l.response),
                   response_time |-> ((now - l.start_time) * 1000) \div TicksPerSecond,
                   response_size |->
                       IF IsSome(l.response_body) /\ Get(l.response_body) # <<>>
                       THEN Len(Utf8Encode(Get(l.response_body))) ELSE 0,
                   response_headers |->
                       IF IsSome(l.response)
                       THEN Some(DictOf(Get(l.response).headers)) ELSE None,
                   response_body |-> l.response_body])]

\* Lines 85-91: except Exception as e. A fault that is no Exception is not
\* caught: it stays in flight through the finally clause.
Catch(l, e) ==
    IF e.base THEN [l EXCEPT !.pending = Some(e)]
    ELSE [l EXCEPT !.exception_occurred = Some(e),
                   !.error_info = Some(ErrorInfo(e))]

\* Lines 61-66: response = await call_next(request), up to the drain of the
\* body or, with no body to capture or a fault, to the store.
CallNext(r, out) ==
    /\ req[r].pc = "call_next"
    /\ req' = [req EXCEPT ![r] =
          IF out.tag = "raise"
          THEN Finally(Catch([@ EXCEPT !.handler = out], Get(out.exc)))
          ELSE IF Captured(Get(out.response))
          THEN [@ EXCEPT !.pc = "drain", !.handler = out,
                         !.response = out.response]
          ELSE Finally([@ EXCEPT !.handler = out, !.response = out.response])]
    /\ UNCHANGED <<dashboard, reader, exclude_paths, tableExists, requests, seq, now, result>>

\* Lines 67-83: drain body_iterator, decode, recreate the response. A fault of
\* the stream leaves `response` the handler's response, its stream consumed.
Drain(r) ==
    /\ req[r].pc = "drain"
    /\ LET l == req[r]
           resp == Get(l.response)
           body == Concat(resp.chunks)
       IN req' = [req EXCEPT ![r] =
            IF IsSome(resp.stream_error)
            THEN Finally(Catch([l EXCEPT !.response =
                                    Some([resp EXCEPT !.consumed = TRUE])],
                               Get(resp.stream_error)))
            ELSE Finally([l EXCEPT !.response_body = DecodeOrNone(body),
                                   !.response = Some(Recreate(resp, body))])]
    /\ UNCHANGED <<dashboard, reader, exclude_paths, tableExists, requests, seq, now, result>>

\* store_request's arguments: **request_data, **response_data, error_info
StoreArgs(l) ==
    LET q == Get(l.request_data)
        d == Get(l.response_data)
    IN [timestamp |-> q.timestamp, method |-> q.method, path |-> q.path,
        query_params |-> q.query_params, status_code |-> d.status_code,
        response_time |-> d.response_time, request_size |-> q.request_size,
        response_size |-> d.response_size, client_ip |-> q.client_ip,
        user_agent |-> q.user_agent, headers |-> q.headers,
        request_body |-> q.request_body, response_body |-> d.response_body,
        response_headers |-> d.response_headers, error_info |-> l.error_info]

\* Line 73 of store_request, awaited from line 108: await self.init_db()
StoreInit(r) ==
    /\ req[r].pc = "store_init"
    /\ tableExists' = TRUE
    /\ requests' = CreateTableIfNotExists(tableExists, requests)
    /\ req' = [req EXCEPT ![r].pc = "store_insert"]
    /\ UNCHANGED <<dashboard, reader, exclude_paths, seq, now, result>>

\* Lines 75-102 of store_request: the INSERT and its commit.
StoreInsert(r) ==
    /\ req[r].pc = "store_insert"
    /\ requests' = InsertRow(requests, seq, StoreArgs(req[r]))
    /\ seq' = seq + 1
    /\ req' = [req EXCEPT ![r] = [@ EXCEPT !.pc = "stored",
                                           !.row_ids = Append(@, seq + 1)]]
    /\ UNCHANGED <<dashboard, reader, exclude_paths, tableExists, now, result>>

\* The storage engine fails the write (sqlite3.OperationalError: the file is
\* locked, unwritable or full): the fault leaves store_request and, raised
\* inside the finally clause, leaves dispatch in place of whatever was in
\* flight.
StoreFail(r) ==
    /\ req[r].pc \in {"store_init", "store_insert"}
    /\ req' = [req EXCEPT ![r] = [@ EXCEPT !.pc = "done",
          !.outcome = Raised(Exc("OperationalError", <<"database is locked">>,
                                 "store", FALSE))]]
    /\ UNCHANGED <<dashboard, reader, exclude_paths, tableExists, requests, seq, now, result>>

\* Lines 112-116: raise exception_occurred if there is one; a fault still in
\* flight leaves the finally clause; otherwise return response.
Leave(l) ==
    IF IsSome(l.exception_occurred) THEN Raised(Get(l.exception_occurred))
    ELSE IF IsSome(l.pending) THEN Raised(Get(l.pending))
    ELSE Returned(Get(l.response))

\* The write has returned (the connection is closed): dispatch ends.
Finish(r) ==
    /\ req[r].pc = "stored"
    /\ req' = [req EXCEPT ![r] = [@ EXCEPT !.pc = "done", !.outcome = Leave(req[r])]]
    /\ UNCHANGED <<dashboard, reader, exclude_paths, tableExists, requests, seq, now, result>>

\* time.time() advances.
Tick ==
    /\ now < T0 + MaxTime * TicksPerSecond
    /\ now' = now + TicksPerSecond
    /\ UNCHANGED <<dashboard, reader, exclude_paths, tableExists, requests, seq, req, result>>

\* The system clock is set back (by its administrator, or by a step of its
\* time synchronisation): time.time() then reads less than it did before.
ClockSetBack ==
    /\ now > T0
    /\ now' = now - TicksPerSecond
    /\ UNCHANGED <<dashboard, reader, exclude_paths, tableExists, requests, seq, req, result>>

\* ------------------------------------------------------------------ inputs

\* exclude_paths as given to MonitorMiddleware: absent, empty, or prefixes.
ExcludeArgs == {None, Some(<<>>), Some(<<<<"/health">>>>)}

Paths == {<<"/monitor">>, <<"/monitor", "ing">>, <<"/health">>, <<"/api">>}

Header(name, value) == <<name, value>>

\* Request header lists: none, a content-length that is a number, empty,
\* negative or no number, and a field that repeats.
RequestHeaders ==
    {<<>>,
     <<Header("content-length", <<"1", "7">>)>>,
     <<Header("content-length", <<>>)>>,
     <<Header("content-length", <<"-", "1">>)>>,
     <<Header("content-length", <<"x">>)>>,
     <<Header("user-agent", <<"curl">>), Header("x-a", <<"1">>),
       Header("x-a", <<"2">>)>>}

RequestBodies == {<<>>, <<"a">>, <<"C3", "A9">>, <<"FF">>}

Request(method, path, headers, body, body_error) ==
    [method |-> method, path |-> path, query |-> <<"q=1">>, headers |-> headers,
     client |-> Some(<<"127.0.0.1">>), body |-> body, body_error |-> body_error]

\* The requests of the capture specification.
Requests ==
    {Request("GET", p, h, <<>>, FALSE) : p \in Paths, h \in RequestHeaders}
    \cup {Request("POST", p, h, b, e) :
            p \in {<<"/api">>, <<"/health">>},
            h \in {<<>>, <<Header("content-length", <<"x">>)>>},
            b \in RequestBodies, e \in BOOLEAN}

\* Response header lists as the handler sets them, before content-length.
ResponseHeaders ==
    {<<Header("content-type", <<"application/json">>)>>,
     <<Header("content-type", <<"text/", "plain; charset=utf-8">>),
       Header("set-cookie", <<"a=1">>), Header("set-cookie", <<"b=2">>)>>,
     <<Header("content-type", <<"image/png">>)>>,
     <<Header("x-a", <<"1">>)>>}

ResponseChunks == {<<>>, <<<<"a">>>>, <<<<"C3">>, <<"A9">>>>, <<<<"FF">>>>}

HandlerFaults ==
    {Exc("ValueError", <<"boom">>, "handler", FALSE),
     Exc("TimeoutError", <<>>, "handler", FALSE),
     Exc("CancelledError", <<>>, "handler", TRUE)}

StreamFaults ==
    {None, Some(Exc("RuntimeError", <<"stream">>, "stream", FALSE))}

\* A response whose body was known when it was made carries content-length; a
\* streamed one does not.
Sized(headers, chunks, sized) ==
    IF sized
    THEN headers \o <<Header("content-length", IntToStr(Len(Concat(chunks))))>>
    ELSE headers

\* What the next stage does with a request, in the capture specification.
Outcomes ==
    {Returned(Streaming(st, Sized(h, c, z), c, None)) :
        st \in {200, 404}, h \in ResponseHeaders, c \in ResponseChunks,
        z \in BOOLEAN}
    \cup {Returned(Streaming(200, h, <<<<"a">>>>, e)) :
            h \in ResponseHeaders, e \in StreamFaults}
    \cup {Raised(e) : e \in HandlerFaults}

\* The requests and outcomes of the concurrent specification.
ConcurrentRequests ==
    {Request("GET", <<"/health">>, <<>>, <<>>, FALSE),
     Request("POST", <<"/api">>, <<>>, <<"a">>, FALSE)}

ConcurrentOutcomes ==
    {Returned(Streaming(200, <<Header("content-type", <<"application/json">>)>>,
                        <<<<"a">>>>, None)),
     Raised(Exc("ValueError", <<"boom">>, "handler", FALSE)),
     Raised(Exc("CancelledError", <<>>, "handler", TRUE))}

AllReqs == 1..NReq

\* ------------------------------------------------------------ specifications

NoResult == [op |-> "none", value |-> <<>>]

Init ==
    /\ exclude_paths \in {Construct(a) : a \in ExcludeArgs}
    /\ tableExists = FALSE
    /\ requests = <<>>
    /\ seq = 0
    /\ now = T0
    /\ req = [r \in AllReqs |-> Idle]
    /\ result = NoResult
    /\ reader = ReaderIdle
    /\ dashboard = CreateDashboardApp(None, None)

\* One step of the dispatch call of request r.
Step(r, rqs, outs) ==
    \/ \E rq \in rqs : Dispatch(r, rq)
    \/ ReadBody(r)
    \/ \E out \in outs : PassThrough(r, out)
    \/ \E out \in outs : CallNext(r, out)
    \/ Drain(r)
    \/ StoreInit(r)
    \/ StoreInsert(r)
    \/ StoreFail(r)
    \/ Finish(r)

\* The capture specification: one request, every input, the clock advancing.
Next ==
    \/ Step(1, Requests, Outcomes)
    \/ Tick
    \/ ClockSetBack

Spec == Init /\ [][Next]_vars

\* The concurrent specification: NReq requests interleaved at their suspension
\* points.
NextConcurrent ==
    \E r \in AllReqs : Step(r, ConcurrentRequests, ConcurrentOutcomes)

SpecConcurrent == Init /\ [][NextConcurrent]_vars

\* The arguments the store specification calls store_request with.
Args(ts, path, status, rt, headers, error_info) ==
    [timestamp |-> ts, method |-> "GET", path |-> path, query_params |-> <<>>,
     status_code |-> status, response_time |-> rt, request_size |-> 0,
     response_size |-> 0, client_ip |-> None, user_agent |-> None,
     headers |-> headers, request_body |-> None, response_body |-> None,
     response_headers |-> None, error_info |-> error_info]

StoreCalls ==
    {Args(T0, <<"/a">>, 200, 50, Some(<<Header("a", <<"b">>)>>), None),
     Args(T0 - 1, <<"/a">>, 200, 100, None, Some(<<>>)),
     Args(T0 - 4000 * TicksPerSecond, <<"/b">>, 404, 150, Some(<<>>), None),
     Args(T0 - (86400 - 900) * TicksPerSecond, <<"/b">>, 500, 5000,
          Some(<<Header("a", <<"b">>), Header("c", <<>>)>>),
          Some(ErrorInfo(Exc("ValueError", <<"boom">>, "handler", FALSE)))),
     Args(T0 - 60 * TicksPerSecond, <<"/a">>, 200, -1, None, None)}

\* <<limit, offset>> of get_recent_requests
Pages ==
    {<<-1, 0>>, <<0, 0>>, <<1, 0>>, <<1, 1>>, <<1, 2>>, <<2, 0>>, <<2, 2>>,
     <<1, -1>>, <<2, 5>>, <<100, 0>>}
Ids == 0..(MaxRows + 1)
ResolutionArgs == DOMAIN Resolutions \cup {"2h", ""}
\* The resolutions get_analytics_data is called with.
AnalyticsArgs == {"30s", "1h", "2h"}

\* The store specification: the store's API called in any order by a caller
\* that awaits each call, at one reading of the clock.
NextStore ==
    \/ InitDb
    \/ \E a \in StoreCalls : StoreRequest(a)
    \/ \E page \in Pages : GetRecentRequests(page[1], page[2])
    \/ \E id \in Ids : GetRequestById(id)
    \/ GetStats
    \/ \E resolution \in ResolutionArgs : GetRequestsOverTime(resolution)
    \/ \E resolution \in AnalyticsArgs : GetAnalyticsData(resolution)

SpecStore == Init /\ [][NextStore]_vars

\* The reader specification: get_stats running step by step while
\* store_request calls of other tasks commit.
NextReader ==
    \/ \E a \in StoreCalls : StoreRequest(a)
    \/ StatsInit
    \/ StatsTotal
    \/ StatsAvg
    \/ StatsStatusCodes
    \/ StatsErrors

SpecReader == Init /\ [][NextReader]_vars

\* The credentials create_dashboard_app is given: none, a username and a
\* password, a username alone, an empty password, a password with a
\* character outside ASCII.
DashboardArgs ==
    {<<None, None>>,
     <<Some(<<"admin">>), Some(<<"secret">>)>>,
     <<Some(<<"admin">>), None>>,
     <<Some(<<"admin">>), Some(<<>>)>>,
     <<Some(<<"admin">>), Some(<<"secr", "e'", "t">>)>>}

\* The username and password of a request's Authorization header, which
\* HTTPBasic decodes as ASCII: no header, the two of the second app, a wrong
\* password, an empty password.
Credentials ==
    {None,
     Some(<<<<"admin">>, <<"secret">>>>),
     Some(<<<<"admin">>, <<"wrong">>>>),
     Some(<<<<"admin">>, <<>>>>)}

\* The records the store holds beside the dashboard.
DashboardStoreCalls ==
    {Args(T0, <<"/a">>, 200, 50, None, None),
     Args(T0 - 1, <<"/b">>, 500, 100, None,
          Some(ErrorInfo(Exc("ValueError", <<"boom">>, "handler", FALSE))))}

InitDashboard ==
    /\ exclude_paths = DefaultExclude
    /\ tableExists = FALSE
    /\ requests = <<>>
    /\ seq = 0
    /\ now = T0
    /\ req = [r \in AllReqs |-> Idle]
    /\ result = NoResult
    /\ reader = ReaderIdle
    /\ dashboard \in {CreateDashboardApp(a[1], a[2]) : a \in DashboardArgs}

\* The dashboard specification: an app created with some credentials, its
\* endpoints requested in any order while the observed service stores records.
NextDashboard ==
    \/ \E a \in DashboardStoreCalls : StoreRequest(a)
    \/ \E endpoint \in Endpoints, credentials \in Credentials :
         DashboardGet(endpoint, credentials)

SpecDashboard == InitDashboard /\ [][NextDashboard]_vars

\* ------------------------------------------------------------------ claims

\* The path of request r starts with one of the configured prefixes.
PathExcluded(r) ==
    LET p == Get(req[r].request).path
    IN \E i \in 1..Len(exclude_paths) :
         /\ Len(exclude_paths[i]) <= Len(p)
         /\ \A k \in 1..Len(exclude_paths[i]) : p[k] = exclude_paths[i][k]

\* Request r has entered dispatch and its path is not excluded.
Observed(r) == IsSome(req[r].request) /\ ~PathExcluded(r)

\* The rows of the table that request r's store_request inserted.
RowsOf(r) ==
    SelectSeq(requests,
              LAMBDA x : \E k \in 1..Len(req[r].row_ids) : req[r].row_ids[k] = x.id)

\* Request r ended with what its handler gave: a returned response, or the
\* fault the handler raised.
EndedByHandler(r) ==
    /\ req[r].pc = "done"
    /\ \/ req[r].outcome.tag = "return"
       \/ /\ req[r].outcome.tag = "raise"
          /\ Get(req[r].outcome.exc).origin = "handler"

\* C1: once every request has completed, each by a returned response or by
\* the handler's fault, the store holds exactly one record per non-excluded
\* request (and none besides), whatever the interleaving.
C1_OneRecordPerRequest ==
    (\A r \in AllReqs : EndedByHandler(r)) =>
        /\ \A r \in AllReqs : Observed(r) => Len(RowsOf(r)) = 1
        /\ \A r1, r2 \in AllReqs :
             (r1 # r2 /\ Observed(r1) /\ Observed(r2)) => RowsOf(r1) # RowsOf(r2)
        /\ Len(requests) = Cardinality({r \in AllReqs : Observed(r)})

\* Two concurrent observed requests, one answered and one faulted, each with
\* its record.
C1_Witness ==
    /\ \A r \in AllReqs : EndedByHandler(r) /\ Observed(r)
    /\ \E r1, r2 \in AllReqs :
         req[r1].outcome.tag = "return" /\ req[r2].outcome.tag = "raise"
    /\ Len(requests) = NReq

\* C2: every step of a request whose path starts with an excluded prefix
\* leaves the store as it was, and the request ends with exactly what the next
\* stage gave (its response, stream untouched, or its fault).
C2_ExcludedPassThrough ==
    [][\A r \in AllReqs :
         (/\ IsSome(req'[r].request)
          /\ req'[r] # req[r]
          /\ LET p == Get(req'[r].request).path
             IN \E i \in 1..Len(exclude_paths) :
                  /\ Len(exclude_paths[i]) <= Len(p)
                  /\ SubSeq(p, 1, Len(exclude_paths[i])) = exclude_paths[i])
         => /\ UNCHANGED <<requests, seq, tableExists>>
            /\ req'[r].row_ids = <<>>
            /\ req'[r].pc = "done" =>
                 /\ req'[r].handler.tag # "none"
                 /\ req'[r].outcome = req'[r].handler]_vars

\* An excluded request whose path only starts with the prefix, its handler
\* faulted, nothing stored.
C2_Witness ==
    /\ req[1].pc = "done"
    /\ IsSome(req[1].request)
    /\ PathExcluded(1)
    /\ Get(req[1].request).path \notin {exclude_paths[i] : i \in 1..Len(exclude_paths)}
    /\ req[1].outcome.tag = "raise"
    /\ requests = <<>>

HandlerFault(r) ==
    IF req[r].handler.tag = "raise" THEN req[r].handler.exc
    ELSE IF /\ req[r].handler.tag = "return"
            /\ Captured(Get(req[r].handler.response))
         THEN Get(req[r].handler.response).stream_error
    ELSE None

\* The caller of request r got the handler's own outcome: the handler's fault
\* if it faulted, else a response with the handler's status and body bytes.
HandlerOutcomeDelivered(r) ==
    IF IsSome(HandlerFault(r))
    THEN /\ req[r].outcome.tag = "raise"
         /\ req[r].outcome.exc = HandlerFault(r)
    ELSE /\ req[r].outcome.tag = "return"
         /\ Get(req[r].outcome.response).status_code
              = Get(req[r].handler.response).status_code
         /\ Delivered(Get(req[r].outcome.response))
              = Concat(Get(req[r].handler.response).chunks)

\* C4: on the fault path of a non-excluded request, a fault reaches the
\* caller only after the record has been committed, and it is the very fault
\* the handler raised.
C4_RecordThenOriginalFault ==
    \A r \in AllReqs :
        (/\ Observed(r)
         /\ req[r].handler.tag = "raise"
         /\ req[r].outcome.tag = "raise")
        => /\ Len(RowsOf(r)) = 1
           /\ req[r].outcome.exc = req[r].handler.exc

\* C5: for a non-excluded request whose handler returns a JSON or text
\* response, the response the caller gets has the same status code, the same
\* sequence of header fields and the same body bytes as the handler's.
C5_ResponseIdentical ==
    \A r \in AllReqs :
        (/\ Observed(r)
         /\ req[r].pc = "done"
         /\ req[r].handler.tag = "return"
         /\ Captured(Get(req[r].handler.response))
         /\ req[r].outcome.tag = "return")
        => LET got == Get(req[r].outcome.response)
               made == Get(req[r].handler.response)
           IN /\ got.status_code = made.status_code
              /\ got.headers = made.headers
              /\ Delivered(got) = Concat(made.chunks)

\* C6: whether or not the write of the record succeeds, the caller of a
\* non-excluded request whose handler was invoked gets the handler's own
\* outcome: its response, or its own fault.
C6_StoreFailureNotMasking ==
    \A r \in AllReqs :
        (/\ Observed(r)
         /\ req[r].pc = "done"
         /\ req[r].handler.tag # "none")
        => HandlerOutcomeDelivered(r)

\* C7: with a working store, every non-excluded request, whatever its method,
\* headers and body, has its handler invoked and ends with the handler's
\* outcome; a request or response body that cannot be read or decoded is
\* null in the record.
C7_NoFailureOfItsOwn ==
    \A r \in AllReqs :
        (/\ Observed(r)
         /\ req[r].pc = "done"
         /\ ~(req[r].outcome.tag = "raise"
              /\ Get(req[r].outcome.exc).origin = "store"))
        => /\ req[r].handler.tag # "none"
           /\ HandlerOutcomeDelivered(r)
           /\ \A k \in 1..Len(RowsOf(r)) :
                LET row == RowsOf(r)[k]
                    rq == Get(req[r].request)
                IN /\ (rq.body_error \/ ~Utf8Valid(rq.body))
                        => IsNone(row.request_body)
                   /\ (/\ req[r].handler.tag = "return"
                       /\ ~Utf8Valid(Concat(Get(req[r].handler.response).chunks)))
                        => IsNone(row.response_body)

\* C8: when the handler of a non-excluded request is cancelled, the record
\* written has status 500 and an error_info that is not null, and the
\* cancellation then reaches the caller.
C8_CancellationRecorded ==
    \A r \in AllReqs :
        (/\ Observed(r)
         /\ req[r].handler.tag = "raise"
         /\ Get(req[r].handler.exc).base)
        => /\ \A k \in 1..Len(RowsOf(r)) :
                /\ RowsOf(r)[k].status_code = 500
                /\ IsSome(RowsOf(r)[k].error_info)
           /\ (req[r].pc = "done" /\ Len(RowsOf(r)) = 1)
                => req[r].outcome = req[r].handler

\* C9: every operation of the store leaves each stored record in place with
\* all its values, and the table grows only by one record, by store_request.
C9_RecordsImmutable ==
    [][/\ Len(requests') >= Len(requests)
       /\ \A i \in 1..Len(requests) : requests'[i] = requests[i]
       /\ Len(requests') # Len(requests)
            => /\ Len(requests') = Len(requests) + 1
               /\ result'.op = "store_request"]_vars

\* Two records stored, then read by the analytics query, both still there.
C9_Witness ==
    /\ Len(requests) >= 2
    /\ result.op = "get_analytics_data"
    /\ requests[1].id = 1
    /\ requests[2].id = 2
    /\ IsSome(requests[1].headers) \/ IsSome(requests[2].headers)

\* C10: get_stats returns total_requests = the number of stored records and
\* avg_response_time = their mean response_time rounded to 2 decimals (in
\* hundredths: within half a hundredth of the mean), and 0 and 0 on an empty
\* store.
C10_StatsTotalAndAverage ==
    result.op = "get_stats" =>
        LET n == Len(requests)
            sum[i \in 0..n] ==
                IF i = 0 THEN 0 ELSE sum[i - 1] + requests[i].response_time
            avg == result.value.avg_response_time
        IN /\ result.value.total_requests = n
           /\ n = 0 => avg = 0
           /\ n > 0 => /\ 2 * (avg * n - 100 * sum[n]) <= n
                       /\ 2 * (100 * sum[n] - avg * n) <= n

\* The records of 50, 100 and 150 ms: get_stats gives 3 and 100.00.
C10_Witness ==
    /\ result.op = "get_stats"
    /\ Len(requests) = 3
    /\ {requests[i].response_time : i \in 1..3} = {50, 100, 150}
    /\ result.value.total_requests = 3
    /\ result.value.avg_response_time = 10000

\* C11: the status_codes mapping of get_stats has exactly one key, the code
\* as a decimal string, for each status code that occurs in the store; its
\* value is the number of records with that code, and is never 0.
C11_StatusCodesMapping ==
    result.op = "get_stats" =>
        LET sc == result.value.status_codes
            codes == {requests[i].status_code : i \in 1..Len(requests)}
            count(c) == Cardinality({i \in 1..Len(requests) : requests[i].status_code = c})
        IN /\ Cardinality(DOMAIN sc) = Cardinality(codes)
           /\ \A c \in codes : \E k \in DOMAIN sc : IntParse(k) = Some(c)
           /\ \A k \in DOMAIN sc :
                /\ IsSome(IntParse(k))
                /\ Get(IntParse(k)) \in codes
                /\ sc[k] = count(Get(IntParse(k)))
                /\ sc[k] > 0

\* Records with codes 200, 200 and 404: get_stats gives {"200": 2, "404": 1}.
C11_Witness ==
    /\ result.op = "get_stats"
    /\ Len(requests) = 3
    /\ DOMAIN result.value.status_codes = {<<"2", "0", "0">>, <<"4", "0", "4">>}
    /\ result.value.status_codes[<<"2", "0", "0">>] = 2
    /\ result.value.status_codes[<<"4", "0", "4">>] = 1

\* C12: the error_count get_stats gives over the records the interceptor
\* wrote is the number of those records' requests that ended in a fault.
C12_ErrorCountIsFaultCount ==
    (\A r \in AllReqs : req[r].pc \in {"idle", "done"}) =>
        Stats(requests).error_count =
            Cardinality({r \in AllReqs : /\ Observed(r)
                                        /\ Len(RowsOf(r)) = 1
                                        /\ req[r].outcome.tag = "raise"})

\* C13: get_request_by_id of a stored record gives, for each structured
\* field (headers, response_headers, error_info) that store_request was given
\* a mapping for, a mapping equal to the one given.
C13_StructuredRoundTrip ==
    (result.op = "get_request_by_id" /\ IsSome(result.value)) =>
        \A a \in StoreCalls :
            a.timestamp = Get(result.value).timestamp =>
                /\ IsSome(a.headers) => Get(result.value).headers = a.headers
                /\ IsSome(a.response_headers)
                     => Get(result.value).response_headers = a.response_headers
                /\ IsSome(a.error_info) => Get(result.value).error_info = a.error_info

\* The pages get_recent_requests gives for offsets 0, limit, 2 * limit, ...
\* over the store as it is, one after the other.
RECURSIVE PagesFrom(_, _)
PagesFrom(limit, offset) ==
    IF offset >= Len(requests) THEN <<>>
    ELSE RecentRequests(requests, limit, offset) \o PagesFrom(limit, offset + limit)

\* C14: get_recent_requests(limit, offset) with limit > 0 and offset >= 0
\* gives stored records in descending order of timestamp, without the first
\* offset of them and at most limit; the consecutive pages over the unchanged
\* store hold every record exactly once, and the page returned is the
\* stretch of them from offset on.
C14_RecentPages ==
    (result.op = "get_recent_requests" /\ result.limit > 0 /\ result.offset >= 0) =>
        LET page == result.value
            n == Len(requests)
            all == PagesFrom(result.limit, 0)
            left == IF result.offset >= n THEN 0 ELSE n - result.offset
        IN /\ Len(page) = IF left < result.limit THEN left ELSE result.limit
           /\ \A i \in 1..Len(page) :
                \E k \in 1..n : requests[k] = [f \in DOMAIN requests[k] |-> page[i][f]]
           /\ \A i, j \in 1..Len(page) : i < j => page[i].timestamp >= page[j].timestamp
           /\ Len(all) = n
           /\ \A k \in 1..n : Cardinality({i \in 1..Len(all) : all[i].id = requests[k].id}) = 1
           /\ \A i, j \in 1..Len(all) : i < j => all[i].timestamp >= all[j].timestamp
           /\ \A i \in 1..Len(page) : page[i] = all[result.offset + i]

\* The second page of one record over three stored records.
C14_Witness ==
    /\ result.op = "get_recent_requests"
    /\ result.limit = 1
    /\ result.offset = 1
    /\ Len(requests) = 3
    /\ Len(result.value) = 1
    /\ \E k \in 1..3 : requests[k].timestamp > result.value[1].timestamp
    /\ \E k \in 1..3 : requests[k].timestamp < result.value[1].timestamp

\* The columns of the requests table.
Columns ==
    {"id", "timestamp", "method", "path", "query_params", "status_code",
     "response_time", "request_size", "response_size", "client_ip", "user_agent",
     "headers", "request_body", "response_body", "response_headers", "error_info"}

\* The record d holds, column by column, the values of the stored row.
IsRecordOf(d, row) == \A c \in Columns : d[c] = row[c]

\* C15: get_recent_requests with limit <= 0, or with an offset that is
\* negative or beyond the number of stored records, returns a list, possibly
\* empty, of stored records, none of them twice, and leaves the store as it
\* was.
C15_RecentTolerant ==
    [][(/\ result'.op = "get_recent_requests"
        /\ \/ result'.limit <= 0
           \/ result'.offset < 0
           \/ result'.offset >= Len(requests))
       => /\ requests' = requests
          /\ seq' = seq
          /\ DOMAIN result'.value = 1..Len(result'.value)
          /\ \A i \in 1..Len(result'.value) :
               \E k \in 1..Len(requests) : IsRecordOf(result'.value[i], requests[k])
          /\ \A i, j \in 1..Len(result'.value) :
               i # j => result'.value[i].id # result'.value[j].id]_vars

\* get_recent_requests(-1, 0) over three stored records gave all three.
C15_Witness ==
    /\ result.op = "get_recent_requests"
    /\ result.limit = -1
    /\ Len(requests) = 3
    /\ Len(result.value) = 3

\* C16: get_request_by_id(id) gives the one stored record whose id is id
\* when there is one, and null when there is none, on an empty or fresh
\* store too.
C16_ByIdOrNull ==
    result.op = "get_request_by_id" =>
        LET hits == {k \in 1..Len(requests) : requests[k].id = result.id}
        IN /\ Cardinality(hits) <= 1
           /\ hits = {} => result.value = None
           /\ \A k \in hits :
                /\ IsSome(result.value)
                /\ \A c \in Columns \ {"headers", "response_headers", "error_info"} :
                     Get(result.value)[c] = requests[k][c]

\* A store of two records asked for an id that no record has: null.
C16_Witness ==
    /\ result.op = "get_request_by_id"
    /\ Len(requests) = 2
    /\ result.id = MaxRows + 1
    /\ result.value = None

\* C17: however often init_db runs, before, between and after the
\* store_request calls, there is one table and it holds the records of all
\* the store_request calls so far, in their order: a call of init_db changes
\* neither the records nor the id counter.
C17_InitDbIdempotent ==
    /\ [](/\ Len(requests) = seq
          /\ \A i \in 1..Len(requests) : requests[i].id = i
          /\ result.op # "none" => tableExists)
    /\ [][result'.op = "init_db" => (requests' = requests /\ seq' = seq)]_vars

\* init_db called again after two records were stored, both still there.
C17_Witness ==
    /\ result.op = "init_db"
    /\ Len(requests) = 2
    /\ seq = 2

\* C18: for a resolution string that is none of the table's,
\* get_requests_over_time gives the series it gives for "30s" on the same
\* store at the same time.
C18_UnknownResolutionAs30s ==
    (result.op = "get_requests_over_time" /\ result.resolution \notin DOMAIN Resolutions)
        => result.value = RequestsOverTime(requests, now, "30s")

\* C19: for each resolution of the table, the series counts exactly the
\* records of the lookback window, one entry per bucket boundary
\* floor(timestamp / width) * width that holds a record, with that bucket's
\* number of records.
C19_BucketsByBoundary ==
    (result.op = "get_requests_over_time" /\ result.resolution \in DOMAIN Resolutions) =>
        LET config == Resolutions[result.resolution]
            width == config.seconds * TicksPerSecond
            win == {i \in 1..Len(requests) :
                      requests[i].timestamp > now - config.duration * TicksPerSecond}
            boundary(i) == (requests[i].timestamp \div width) * width
            series == result.value
            total[k \in 0..Len(series)] ==
                IF k = 0 THEN 0 ELSE total[k - 1] + series[k].count
        IN /\ total[Len(series)] = Cardinality(win)
           /\ Len(series) = Cardinality({boundary(i) : i \in win})
           /\ \A i \in win : \E k \in 1..Len(series) :
                series[k].count = Cardinality({j \in win : boundary(j) = boundary(i)})

\* The bands of the response-time histogram: lower bound, and upper bound
\* if there is one, in milliseconds.
Bands ==
    ("0-100ms" :> <<0, Some(100)>>) @@ ("100-500ms" :> <<100, Some(500)>>)
    @@ ("500ms-1s" :> <<500, Some(1000)>>) @@ ("1-5s" :> <<1000, Some(5000)>>)
    @@ ("5s+" :> <<5000, None>>)

InBand(b, response_time) ==
    /\ Bands[b][1] <= response_time
    /\ IsSome(Bands[b][2]) => response_time < Get(Bands[b][2])

\* C20: in response_time_distribution every stored record is counted in
\* the band that contains its response_time, and the counts sum to the
\* number of stored records.
C20_BandsPartition ==
    result.op = "get_analytics_data" =>
        LET dist == result.value.response_time_distribution
            n == Len(requests)
        IN /\ \A e \in dist : e.range \in DOMAIN Bands
           /\ \A e1, e2 \in dist : e1.range = e2.range => e1 = e2
           /\ \A e \in dist :
                e.count = Cardinality({i \in 1..n : InBand(e.range, requests[i].response_time)})
           /\ \A i \in 1..n : \E e \in dist : InBand(e.range, requests[i].response_time)

\* C21: of two concurrent non-excluded requests, the one whose downstream
\* handling completed first has its record committed first, with the smaller
\* id: whenever the later one's record is in the store, so is the earlier
\* one's, before it.
C21_CompletionOrder ==
    \A a, b \in AllReqs :
        (/\ Observed(a) /\ Observed(b)
         /\ req[a].completed # 0
         /\ req[a].completed < req[b].completed
         /\ Len(RowsOf(b)) = 1)
        => /\ Len(RowsOf(a)) = 1
           /\ RowsOf(a)[1].id < RowsOf(b)[1].id

\* C22: every record the interceptor writes has response_time >= 0, and its
\* response_time is 1000 times the difference between the clock's reading
\* when the record was built and its reading before the handler was invoked,
\* which is the record's timestamp.
C22_ResponseTimeNonNegative ==
    \A r \in AllReqs : \A k \in 1..Len(RowsOf(r)) :
        LET row == RowsOf(r)[k]
        IN /\ row.response_time >= 0
           /\ row.timestamp = req[r].start_time
           /\ row.response_time * TicksPerSecond
                = (req[r].end_time - req[r].start_time) * 1000

\* C24: every record whose error_info is not null has status_code 500, also
\* when the fault came from the response's stream while it was drained, after
\* the handler had returned a response with another status.
C24_ErrorInfoMeans500 ==
    \A i \in 1..Len(requests) :
        IsSome(requests[i].error_info) => requests[i].status_code = 500

\* Request r was handed to the next stage at line 26, nothing of it read.
PassedThrough(r) ==
    \/ req[r].pc = "passthrough"
    \/ /\ req[r].pc = "done"
       /\ req[r].handler.tag # "none"
       /\ IsNone(req[r].request_data)

\* The prefixes the constructor's argument asks for: the list given, and
\* /monitor only when none is given.
ConfiguredPrefixes(arg) == IF IsSome(arg) THEN Get(arg) ELSE DefaultExclude

\* C25: whatever exclude_paths argument the interceptor was constructed with,
\* a request is passed through unobserved exactly when its path starts with
\* one of the prefixes given; /monitor is a prefix only when no argument was
\* given, so that with an empty list every request is observed.
C25_ExcludedIffConfigured ==
    \A a \in ExcludeArgs :
        Construct(a) = exclude_paths =>
            \A r \in AllReqs :
                IsSome(req[r].request) =>
                    (PassedThrough(r)
                       <=> Excluded(Get(req[r].request).path, ConfiguredPrefixes(a)))

\* The response declares a content-type that starts with application/json or
\* with text/.
Textual(resp) ==
    LET ct == HeaderGet(resp.headers, "content-type")
    IN /\ IsSome(ct)
       /\ \/ StartsWith(Get(ct), <<"application/json">>)
          \/ StartsWith(Get(ct), <<"text/">>)

\* The interceptor has consumed the stream of the response the handler of
\* request r returned.
Drained(r) ==
    /\ IsSome(req[r].response)
    /\ req[r].response # req[r].handler.response

\* C26 as stated: for a finished non-excluded request whose handler returned
\* a response and whose record was written, the body was drained and stored
\* exactly when the content-type is JSON or text; otherwise the handler's
\* response was returned as is and response_body is null; a captured body's
\* response_body is the UTF-8 decoding of the bytes the caller got.
C26_StoredIffTextual ==
    \A r \in AllReqs :
        (/\ Observed(r)
         /\ req[r].pc = "done"
         /\ req[r].handler.tag = "return"
         /\ Len(RowsOf(r)) = 1)
        => LET resp == Get(req[r].handler.response)
               row == RowsOf(r)[1]
           IN /\ (Drained(r) /\ IsSome(row.response_body)) <=> Textual(resp)
              /\ ~Textual(resp) =>
                   /\ req[r].outcome = Returned(resp)
                   /\ IsNone(row.response_body)
              /\ Textual(resp) =>
                   /\ req[r].outcome.tag = "return"
                   /\ Utf8Valid(Delivered(Get(req[r].outcome.response)))
                   /\ row.response_body
                        = Some(Utf8Chars(Delivered(Get(req[r].outcome.response))))

\* C26, amended: the stream of the handler's response is consumed exactly
\* when the content-type is JSON or text. For any other content-type, or none,
\* the stream is never consumed, a response that dispatch returns is the
\* handler's as is, and response_body is null. For a JSON or text response
\* whose stream ends without a fault, the caller gets exactly the bytes of
\* the stream and response_body is their UTF-8 decoding, or null when they
\* are not valid UTF-8; when the stream faults, response_body is null.
C26_CapturedBody ==
    \A r \in AllReqs :
        (Observed(r) /\ req[r].handler.tag = "return")
        => LET resp == Get(req[r].handler.response)
               rows == RowsOf(r)
           IN /\ ~Textual(resp) =>
                   /\ ~Drained(r)
                   /\ \A k \in 1..Len(rows) : IsNone(rows[k].response_body)
                   /\ req[r].outcome.tag = "return" => req[r].outcome = Returned(resp)
              /\ Textual(resp) =>
                   /\ Len(rows) > 0 => Drained(r)
                   /\ \A k \in 1..Len(rows) :
                        rows[k].response_body
                          = IF IsNone(resp.stream_error)
                            THEN DecodeOrNone(Concat(resp.chunks)) ELSE None
                   /\ req[r].outcome.tag = "return" =>
                        /\ IsNone(resp.stream_error)
                        /\ Delivered(Get(req[r].outcome.response))
                             = Concat(resp.chunks)

\* A text response in two chunks, drained, returned with the same bytes and
\* recorded decoded.
C26_Witness ==
    /\ Observed(1)
    /\ req[1].pc = "done"
    /\ req[1].handler.tag = "return"
    /\ Textual(Get(req[1].handler.response))
    /\ Len(Get(req[1].handler.response).chunks) = 2
    /\ req[1].outcome.tag = "return"
    /\ Delivered(Get(req[1].outcome.response)) = <<"C3", "A9">>
    /\ Len(RowsOf(1)) = 1
    /\ RowsOf(1)[1].response_body = Some(<<"e'">>)

\* The username and password the dashboard app was created with, when it was
\* given both.
Configured ==
    IF IsSome(dashboard.username) /\ IsSome(dashboard.password)
    THEN Some(<<Get(dashboard.username), Get(dashboard.password)>>)
    ELSE None

\* C23: a dashboard app created with a username and a password answers a
\* request of any of its endpoints with 401 and no stored data unless the
\* request carries exactly that username and password, and serves it when it
\* does; an app created without credentials serves every request.
C23_DashboardAuth ==
    result.op = "dashboard" =>
        /\ IsSome(Configured) =>
             IF result.credentials = Configured
             THEN result.status = 200 /\ IsSome(result.value)
             ELSE result.status = 401 /\ IsNone(result.value)
        /\ (IsNone(dashboard.username) /\ IsNone(dashboard.password)) =>
             result.status = 200 /\ IsSome(result.value)

RECURSIVE SumOf(_, _)
\* The sum of the values f takes on the keys in S.
SumOf(f, S) ==
    IF S = {} THEN 0
    ELSE LET k == CHOOSE x \in S : TRUE IN f[k] + SumOf(f, S \ {k})

\* C27: whatever commits while it runs, the result of get_stats is that of
\* one committed state of the store: the counts of its status_codes sum to
\* its total_requests, and its error_count is at most its total_requests.
C27_StatsOfOneState ==
    result.op = "get_stats" =>
        /\ SumOf(result.value.status_codes, DOMAIN result.value.status_codes)
             = result.value.total_requests
        /\ result.value.error_count <= result.value.total_requests

====
